---------------------------- MODULE Spec2Model ----------------------------
(***************************************************************************)
(* FairGrade: the grading client (parseRubric, gradeCriterion,             *)
(* processStudentAnswers), the grading form (GradingPage) and the mock     *)
(* authentication context (AuthProvider).                                  *)
(*                                                                         *)
(* Strings are sequences of one-character strings, so that the regular     *)
(* expressions of the source are computed character by character.          *)
(* Numbers that the source computes in IEEE-754 binary64 (the fallback     *)
(* score and the total score) are computed here bit by bit: a positive     *)
(* double is a record [m |-> 53 mantissa bits, most significant first,     *)
(* e |-> the binary exponent of the first bit].                            *)
(***************************************************************************)
EXTENDS Integers, Sequences, FiniteSets, TLC

VARIABLES
    \* ---- grading client (src/unnamed/part_000)
    apiKey,         \* process.env.NEXT_PUBLIC_AI_API_KEY is set
    rubricText,     \* processStudentAnswers' rubricText argument
    studentFiles,   \* processStudentAnswers' studentFiles argument
    pc,             \* position of processStudentAnswers / of the rubric editor
    criteria,       \* const criteria = parseRubric(rubricText)
    fileIdx,        \* index of the file the for-loop is at
    calls,          \* calls[f][c]: the gradeCriterion call of file f, criterion c
    requests,       \* requests[f][c]: number of fetches issued for the pair
    settleOrder,    \* the order in which the current file's calls settled
    results,        \* const results = []
    nPieces,        \* number of pieces typed into rubricText
    worker,         \* let worker: Tesseract.Worker | null (0 for null)
    workers,        \* the workers createWorker() was called for, in order
    ocrCalls,       \* the calls of initializeOCR and processImage made
    recognizeCalls, \* the recognize invocations made, as they found the worker
    \* ---- grading form (src/app/(dashboard)/grading/page.tsx)
    activeTab, subject, sessionName, formFiles, rubricFile, useTemplateRubric,
    isSubmitting,
    toasts,         \* the toasts raised so far
    route,          \* the route the router is at
    submitPc,       \* position of the running handleSubmit, if any
    submitEvents,   \* number of submit events handled (e.preventDefault())
    \* ---- authentication context (src/unnamed/part_001)
    user, loading, localStorage, mounted,
    thrown,         \* the message of the error the last operation threw, or ""
    registerCalls   \* the email argument of each register call made so far

runVars == <<apiKey, rubricText, studentFiles, pc, criteria, fileIdx, calls,
             requests, settleOrder, results, nPieces>>
ocrVars == <<worker, workers, ocrCalls, recognizeCalls>>
graderVars == <<runVars, ocrVars>>
formVars == <<activeTab, subject, sessionName, formFiles, rubricFile,
              useTemplateRubric, isSubmitting, toasts, route, submitPc,
              submitEvents>>
authVars == <<user, loading, localStorage, mounted, thrown, registerCalls>>
vars == <<graderVars, formVars, authVars>>

\* ------------------------------------------------------------------------
\* Characters and strings
\* ------------------------------------------------------------------------

\* null where a string is expected
Null == "null"

Digits == <<"0", "1", "2", "3", "4", "5", "6", "7", "8", "9">>

IsDigit(c) == \E d \in 1..10 : Digits[d] = c

DigitVal(c) == (CHOOSE d \in 1..10 : Digits[d] = c) - 1

\* \s of a JavaScript regular expression, and what String.prototype.trim strips
IsSpace(c) == c \in {" ", "\t", "\n", "\r", "\f"}

\* the characters "." does not match
IsLineTerminator(c) == c \in {"\n", "\r"}

\* parseInt(digits, 10) of a non-empty run of decimal digits
RECURSIVE parseInt(_)
parseInt(ds) ==
    IF ds = <<>> THEN 0
    ELSE 10 * parseInt(SubSeq(ds, 1, Len(ds) - 1)) + DigitVal(ds[Len(ds)])

\* String.prototype.trim
RECURSIVE trim(_)
trim(s) ==
    IF s = <<>> THEN s
    ELSE IF IsSpace(s[1]) THEN trim(Tail(s))
    ELSE IF IsSpace(s[Len(s)]) THEN trim(SubSeq(s, 1, Len(s) - 1))
    ELSE s

\* String.prototype.split('\n'): the pieces between the separators, empty
\* pieces included
RECURSIVE split(_, _)
split(s, sep) ==
    IF \A k \in 1..Len(s) : s[k] # sep THEN <<s>>
    ELSE LET k == CHOOSE i \in 1..Len(s) :
                      s[i] = sep /\ \A j \in 1..(i - 1) : s[j] # sep
         IN  <<SubSeq(s, 1, k - 1)>> \o split(SubSeq(s, k + 1, Len(s)), sep)

\* the position after the longest run of characters satisfying a class that
\* starts at i (a greedy \s* or \d+)
RECURSIVE SkipSpaces(_, _)
SkipSpaces(s, i) ==
    IF i <= Len(s) /\ IsSpace(s[i]) THEN SkipSpaces(s, i + 1) ELSE i

RECURSIVE SkipDigits(_, _)
SkipDigits(s, i) ==
    IF i <= Len(s) /\ IsDigit(s[i]) THEN SkipDigits(s, i + 1) ELSE i

\* ------------------------------------------------------------------------
\* parseRubric
\* ------------------------------------------------------------------------

\* \((\d+)%\) matches at position p of line
GroupAt(line, p) ==
    /\ p <= Len(line) /\ line[p] = "("
    /\ LET q == SkipDigits(line, p + 1)
       IN  /\ q > p + 1
           /\ q + 1 <= Len(line)
           /\ line[q] = "%" /\ line[q + 1] = ")"

\* (.*?)\s*\((\d+)%\) with the match starting at s and the lazy group
\* ending before i
TryAt(line, s, i) ==
    /\ \A k \in s..(i - 1) : ~IsLineTerminator(line[k])
    /\ GroupAt(line, SkipSpaces(line, i))

\* RubricMatch with a greedy first group, (.*)\s*\((\d+)%\): the last group
\* of the line is taken
RubricMatchGreedy(line) ==
    LET n == Len(line)
        ends == {i \in 1..(n + 1) : TryAt(line, 1, i)}
    IN  IF ends = {} THEN <<>>
        ELSE LET i == CHOOSE x \in ends : \A y \in ends : x >= y
                 p == SkipSpaces(line, i)
                 q == SkipDigits(line, p + 1)
             IN  <<SubSeq(line, 1, q + 1), SubSeq(line, 1, i - 1),
                   SubSeq(line, p + 1, q - 1)>>

\* line.match(/(.*?)\s*\((\d+)%\)/): the leftmost start that matches, with the
\* shortest first group, as <<match[0], match[1], match[2]>>; <<>> for null
RubricMatch(line) ==
    LET n == Len(line)
        starts == {s \in 1..(n + 1) : \E i \in s..(n + 1) : TryAt(line, s, i)}
    IN  IF starts = {} THEN <<>>
        ELSE LET s == CHOOSE x \in starts : \A y \in starts : x <= y
                 ends == {i \in s..(n + 1) : TryAt(line, s, i)}
                 i == CHOOSE x \in ends : \A y \in ends : x <= y
                 p == SkipSpaces(line, i)
                 q == SkipDigits(line, p + 1)
             IN  <<SubSeq(line, s, q + 1), SubSeq(line, s, i - 1),
                   SubSeq(line, p + 1, q - 1)>>

RECURSIVE MapLines(_)
MapLines(lines) ==
    IF lines = <<>> THEN <<>>
    ELSE LET match == RubricMatch(Head(lines))
         IN  (IF match # <<>>
              THEN <<[name |-> trim(match[2]), weight |-> parseInt(match[3])]>>
              ELSE <<>>) \o MapLines(Tail(lines))

parseRubric(text) == MapLines(split(text, "\n"))

\* ------------------------------------------------------------------------
\* IEEE-754 binary64 arithmetic of the scores (JavaScript numbers)
\* ------------------------------------------------------------------------

MantissaBits == 53

\* a number is finite and positive (k = "num"), zero, NaN or Infinity
NaN == [k |-> "NaN", m |-> <<>>, e |-> 0]

Infinity == [k |-> "Infinity", m |-> <<>>, e |-> 0]

Zero == [k |-> "zero", m |-> <<>>, e |-> 0]

\* the binary digits of a natural number, most significant first (<<>> for 0)
RECURSIVE ToBinary(_)
ToBinary(n) == IF n = 0 THEN <<>> ELSE ToBinary(n \div 2) \o <<n % 2>>

RECURSIVE FromBinary(_)
FromBinary(b) ==
    IF b = <<>> THEN 0
    ELSE 2 * FromBinary(SubSeq(b, 1, Len(b) - 1)) + b[Len(b)]

\* b + 1 for a bit sequence b that is not all ones
IncBits(b) ==
    LET z == CHOOSE i \in 1..Len(b) :
                 b[i] = 0 /\ \A j \in (i + 1)..Len(b) : b[j] = 1
    IN  [i \in 1..Len(b) |-> IF i < z THEN b[i] ELSE IF i = z THEN 1 ELSE 0]

\* round to nearest, ties to even: bits are the leading bits of an exact
\* positive value whose first bit has exponent e; sticky says that the exact
\* value has further non-zero bits after them
RoundBits(bits, e, sticky) ==
    LET n == Len(bits)
        padded == IF n > MantissaBits THEN bits
                  ELSE bits \o [j \in 1..(MantissaBits + 1 - n) |-> 0]
        keep == SubSeq(padded, 1, MantissaBits)
        guard == padded[MantissaBits + 1]
        rest == sticky \/ \E j \in (MantissaBits + 2)..n : bits[j] = 1
        up == guard = 1 /\ (rest \/ keep[MantissaBits] = 1)
    IN  IF ~up THEN [k |-> "num", m |-> keep, e |-> e]
        ELSE IF \A j \in 1..MantissaBits : keep[j] = 1
        THEN [k |-> "num", m |-> <<1>> \o [j \in 1..(MantissaBits - 1) |-> 0],
              e |-> e + 1]
        ELSE [k |-> "num", m |-> IncBits(keep), e |-> e]

\* the bits are computed ChunkBits at a time
ChunkBits == 8

Radix == 2 ^ ChunkBits

\* the bits of the fraction that a division computes before it rounds:
\* enough for the 54 leading bits of a quotient of numbers below 2^18
FracChunks == 9

\* the w low bits of v, most significant first
Bits(v, w) == [j \in 1..w |-> (v \div (2 ^ (w - j))) % 2]

\* bits without its leading zeros
StripZeros(bits) ==
    IF \A j \in 1..Len(bits) : bits[j] = 0 THEN <<>>
    ELSE SubSeq(bits,
                CHOOSE i \in 1..Len(bits) :
                    bits[i] = 1 /\ \A j \in 1..(i - 1) : bits[j] = 0,
                Len(bits))

\* long division: the next chunks * ChunkBits bits of the fraction r / b
\* (r < b) after bits, and the remainder left
RECURSIVE DivBits(_, _, _, _)
DivBits(r, b, chunks, bits) ==
    IF chunks = 0 THEN [bits |-> bits, rem |-> r]
    ELSE DivBits((r * Radix) % b, b, chunks - 1,
                 bits \o Bits((r * Radix) \div b, ChunkBits))

\* a / b of two integer-valued numbers, a >= 0 and b >= 0
Divide(a, b) ==
    IF b = 0 THEN (IF a = 0 THEN NaN ELSE Infinity)
    ELSE IF a = 0 THEN Zero
    ELSE LET int == ToBinary(a \div b)
             t == DivBits(a % b, b, FracChunks, <<>>)
             all == int \o t.bits
             sig == StripZeros(all)
         IN  RoundBits(sig, Len(int) - 1 - (Len(all) - Len(sig)), t.rem # 0)

\* the bits of (value of bits) * n, bits being a whole number of chunks of
\* which the last k are still to do: the product of the others is low,
\* with carry to add
RECURSIVE MulBits(_, _, _, _, _)
MulBits(bits, n, k, carry, low) ==
    IF k = 0 THEN ToBinary(carry) \o low
    ELSE MulBits(bits, n, k - 1,
                 (FromBinary(SubSeq(bits, ChunkBits * (k - 1) + 1,
                                    ChunkBits * k)) * n + carry) \div Radix,
                 Bits((FromBinary(SubSeq(bits, ChunkBits * (k - 1) + 1,
                                         ChunkBits * k)) * n + carry) % Radix,
                      ChunkBits) \o low)

\* x * n for a number x and an integer-valued number n >= 0
Multiply(x, n) ==
    IF x.k \in {"NaN", "Infinity"} THEN x
    ELSE IF x.k = "zero" \/ n = 0 THEN Zero
    ELSE LET chunks == (MantissaBits + ChunkBits - 1) \div ChunkBits
             padded == [j \in 1..(chunks * ChunkBits - MantissaBits) |-> 0]
                           \o x.m
             prod == StripZeros(MulBits(padded, n, chunks, 0, <<>>))
         IN  RoundBits(prod, x.e + Len(prod) - MantissaBits, FALSE)

\* an integer-valued result: v is the integer unless nan or inf
IntNum(v) == [nan |-> FALSE, inf |-> FALSE, v |-> v]

NaNNum == [nan |-> TRUE, inf |-> FALSE, v |-> 0]

InfinityNum == [nan |-> FALSE, inf |-> TRUE, v |-> 0]

\* Math.floor of a finite number >= 0
MathFloor(x) ==
    IF x.k = "zero" \/ x.e < 0 THEN 0
    ELSE FromBinary(SubSeq(x.m, 1, x.e + 1))

\* Math.round of a number >= 0: NaN for NaN, Infinity for Infinity, and
\* else floor(x + 0.5), computed exactly
MathRound(x) ==
    IF x.k = "NaN" THEN NaNNum
    ELSE IF x.k = "Infinity" THEN InfinityNum
    ELSE IF x.k = "zero" \/ x.e < -1 THEN IntNum(0)
    ELSE IF x.e = -1 THEN IntNum(1)
    ELSE IntNum(FromBinary(SubSeq(x.m, 1, x.e + 1)) + x.m[x.e + 2])

\* the literal 0.7: 0x3FE6666666666666
Literal07 ==
    [k |-> "num",
     m |-> <<1>> \o [j \in 1..(MantissaBits - 1) |->
                         IF j % 4 \in {2, 3} THEN 1 ELSE 0],
     e |-> -1]

\* the literal 100 of "/ ... * 100"
Hundred == 100

\* ------------------------------------------------------------------------
\* callAIAPIWithFile and gradeCriterion
\* ------------------------------------------------------------------------

\* what the environment does to one call: the file cannot be read, the
\* fetch rejects, the endpoint answers with a status that is not OK, with a
\* body that holds no text, or with a text
Events == {"readerror", "networkerror", "httperror", "notext", "text"}

\* the letters of "SCORE:" under the i flag
Upper(c) ==
    CASE c = "s" -> "S" [] c = "c" -> "C" [] c = "o" -> "O"
      [] c = "r" -> "R" [] c = "e" -> "E" [] OTHER -> c

\* SCORE:\s*(\d+) matches at position s of response
ScoreAt(response, s) ==
    /\ s + 5 <= Len(response)
    /\ [j \in 1..6 |-> Upper(response[s + j - 1])]
           = <<"S", "C", "O", "R", "E", ":">>
    /\ SkipDigits(response, SkipSpaces(response, s + 6))
           > SkipSpaces(response, s + 6)

\* response.match(/SCORE:\s*(\d+)/i) as <<match[0], match[1]>>; <<>> for null
ScoreMatch(response) ==
    LET starts == {s \in 1..Len(response) : ScoreAt(response, s)}
    IN  IF starts = {} THEN <<>>
        ELSE LET s == CHOOSE x \in starts : \A y \in starts : x <= y
                 p == SkipSpaces(response, s + 6)
                 q == SkipDigits(response, p)
             IN  <<SubSeq(response, s, q - 1), SubSeq(response, p, q - 1)>>

\* the outcome of callAIAPIWithFile: the text it returns, or the message of
\* the error it throws (the FileReader's error event has no message)
Returned(text) == [threw |-> FALSE, message |-> "", text |-> text]

Thrown(message) == [threw |-> TRUE, message |-> message, text |-> <<>>]

callAIAPIWithFile(key, ev, text) ==
    IF ~key
    THEN Thrown("AI API key missing. Please check your .env.local file.")
    ELSE CASE ev = "readerror" -> Thrown("undefined")
           [] ev = "networkerror" -> Thrown("Failed to fetch")
           [] ev = "httperror" -> Thrown("AI API request failed")
           [] ev = "notext" -> Thrown("Invalid AI API response format")
           [] OTHER -> Returned(text)

\* a settled promise of gradeCriterion
Fulfilled(score, feedback) ==
    [st |-> "fulfilled", score |-> score, feedback |-> feedback]

\* Catch that grades the pair again instead of falling back
CatchRetry(maxScore, message) ==
    [st |-> "read", score |-> 0, feedback |-> <<>>]

\* the catch block of gradeCriterion
Catch(maxScore, message) ==
    Fulfilled(MathFloor(Multiply(Literal07, maxScore)),
              <<"Unable to perform AI grading: ", message,
                ". Please review manually.">>)

\* ValidScore without the comparison with maxScore
ValidScoreNoMax(score, maxScore) == ~(score < 0)

\* the score is in range: !(isNaN(score) || score < 0 || score > maxScore)
ValidScore(score, maxScore) == ~(score < 0 \/ score > maxScore)

\* gradeCriterion once callAIAPIWithFile has settled with api
gradeCriterion(maxScore, api) ==
    IF api.threw THEN Catch(maxScore, api.message)
    ELSE LET scoreMatch == ScoreMatch(api.text)
         IN  IF scoreMatch = <<>>
             THEN Catch(maxScore, "AI response did not contain a valid score")
             ELSE IF ~ValidScore(parseInt(scoreMatch[2]), maxScore)
             THEN Catch(maxScore, "AI response contained an invalid score")
             ELSE Fulfilled(parseInt(scoreMatch[2]), api.text)

\* ------------------------------------------------------------------------
\* processStudentAnswers
\* ------------------------------------------------------------------------

\* the largest number of student files of one run
MaxFiles == 2

\* the i-th student file: s1.png, s2.v2.jpg, s3.png, ...
File(i) ==
    [name |-> <<"s", Digits[i + 1]>> \o
              (IF i % 2 = 1 THEN <<".", "p", "n", "g">>
               ELSE <<".", "v", "2", ".", "j", "p", "g">>)]

FileLists == {[i \in 1..n |-> File(i)] : n \in 0..MaxFiles}

RubricTexts ==
    { <<"a", " ", "(", "4", "0", "%", ")">>,
      <<"a", " ", "(", "9", "0", "%", ")", "\n",
        "b", "(", "1", "0", "%", ")">>,
      <<"z", " ", "(", "0", "%", ")", "\r">>,
      <<"x">> }

\* the texts the endpoint answers with
Responses ==
    { <<"O", "k", ".", " ", "s", "c", "o", "r", "e", ":", " ", "2", "3", ".">>,
      <<"S", "C", "O", "R", "E", " ", "5">> }

IdleCall ==
    [st |-> "idle", ev |-> "", text |-> <<>>, score |-> 0, feedback |-> <<>>]

\* the call of a pair once the environment has answered it with ev and text
Settle(maxScore, key, ev, text) ==
    LET g == gradeCriterion(maxScore, callAIAPIWithFile(key, ev, text))
    IN  [st |-> g.st, ev |-> ev, text |-> text, score |-> g.score,
         feedback |-> g.feedback]

\* LaunchCalls that does not ask the endpoint about a criterion of weight 0
LaunchCallsSkipZero(crit, key) ==
    [c \in 1..Len(crit) |->
        IF key /\ crit[c].weight > 0 THEN [IdleCall EXCEPT !.st = "read"]
        ELSE [IdleCall EXCEPT !.st = "fulfilled"]]

\* criteria.map(async criterion => ...): every call of a file runs up to
\* its first suspension, the read of the file, or fails for want of a key
LaunchCalls(crit, key) ==
    [c \in 1..Len(crit) |->
        IF key THEN [IdleCall EXCEPT !.st = "read"]
        ELSE Settle(crit[c].weight, key, "nokey", <<>>)]

\* AllSettled of a loop that does not await the calls
AllSettledNoAwait(row) == TRUE

\* await Promise.all(...) of the calls of one file goes on
AllSettled(row) == \A c \in 1..Len(row) : row[c].st = "fulfilled"

\* what the mapper of criterion c returns
Entry(crit, row, c) ==
    [name |-> crit[c].name, score |-> row[c].score,
     maxScore |-> crit[c].weight, feedback |-> row[c].feedback]

\* PromiseAll that gives the values in the order they settled in
PromiseAllBySettlement(entries, order) ==
    [i \in 1..Len(entries) |->
        IF i <= Len(order) THEN entries[order[i]] ELSE entries[i]]

\* Promise.all: the values in the order of the promises, whatever the
\* order they settled in
PromiseAll(entries, order) == entries

RECURSIVE SumScores(_)
SumScores(cr) == IF cr = <<>> THEN 0 ELSE Head(cr).score + SumScores(Tail(cr))

RECURSIVE SumMaxScores(_)
SumMaxScores(cr) ==
    IF cr = <<>> THEN 0 ELSE Head(cr).maxScore + SumMaxScores(Tail(cr))

TotalScore(cr) ==
    MathRound(Multiply(Divide(SumScores(cr), SumMaxScores(cr)), Hundred))

\* every comparison with NaN is false, and Infinity >= 80
OverallFeedback(totalScore) ==
    IF totalScore.inf \/ (~totalScore.nan /\ totalScore.v >= 80)
    THEN "Excellent work overall!"
    ELSE IF ~totalScore.nan /\ totalScore.v >= 60
    THEN "Good work with room for improvement."
    ELSE IF ~totalScore.nan /\ totalScore.v >= 40
    THEN "Needs significant improvement."
    ELSE "Requires extensive revision."

\* name.replace(/\.[^/.]+$/, "")
StripExtension(name) ==
    LET dots == {s \in 1..(Len(name) - 1) :
                    /\ name[s] = "."
                    /\ \A j \in (s + 1)..Len(name) : name[j] \notin {"/", "."}}
    IN  IF dots = {} THEN name
        ELSE SubSeq(name, 1, (CHOOSE s \in dots : TRUE) - 1)

\* the result of the file whose calls are row (its id, a timestamp and a
\* random string that nothing reads, is left out)
FileResult(file, crit, row, order) ==
    LET criteriaResults ==
            PromiseAll([c \in 1..Len(crit) |-> Entry(crit, row, c)], order)
        totalScore == TotalScore(criteriaResults)
    IN  [name |-> StripExtension(file.name), score |-> totalScore,
         feedback |-> OverallFeedback(totalScore),
         criteria |-> criteriaResults]

\* the order in which the calls launched without a key settled
LaunchOrder(crit, key) == IF key THEN <<>> ELSE [c \in 1..Len(crit) |-> c]

\* processStudentAnswers is called: the rubric is parsed and the calls of
\* the first file are launched
Start ==
    /\ pc = "start"
    /\ criteria' = parseRubric(rubricText)
    /\ results' = <<>>
    /\ requests' = [f \in 1..Len(studentFiles) |->
                       [c \in 1..Len(criteria') |-> 0]]
    /\ IF studentFiles = <<>>
       THEN /\ pc' = "done"
            /\ calls' = <<>>
            /\ UNCHANGED <<fileIdx, settleOrder>>
       ELSE /\ pc' = "grading"
            /\ fileIdx' = 1
            /\ calls' = [f \in 1..Len(studentFiles) |->
                            IF f = 1 THEN LaunchCalls(criteria', apiKey)
                            ELSE [c \in 1..Len(criteria') |-> IdleCall]]
            /\ settleOrder' = LaunchOrder(criteria', apiKey)
    /\ UNCHANGED <<apiKey, rubricText, studentFiles, nPieces, ocrVars, formVars,
                   authVars>>

\* the FileReader of a call ends: with the file read the request is sent,
\* else the call fails
ReadDone(f, c) ==
    /\ pc = "grading"
    /\ calls[f][c].st = "read"
    /\ \E readOk \in BOOLEAN :
          IF readOk
          THEN /\ calls' = [calls EXCEPT ![f][c].st = "fetch"]
               /\ requests' = [requests EXCEPT ![f][c] = @ + 1]
               /\ UNCHANGED settleOrder
          ELSE /\ calls' = [calls EXCEPT ![f][c] =
                               Settle(criteria[c].weight, apiKey,
                                      "readerror", <<>>)]
               /\ settleOrder' = Append(settleOrder, c)
               /\ UNCHANGED requests
    /\ UNCHANGED <<apiKey, rubricText, studentFiles, pc, criteria, fileIdx,
                   results, nPieces, ocrVars, formVars, authVars>>

\* the fetch of a call ends, and gradeCriterion with it
FetchDone(f, c) ==
    /\ pc = "grading"
    /\ calls[f][c].st = "fetch"
    /\ \E ev \in Events \ {"readerror"} :
       \E text \in (IF ev = "text" THEN Responses ELSE {<<>>}) :
          calls' = [calls EXCEPT ![f][c] =
                       Settle(criteria[c].weight, apiKey, ev, text)]
    /\ settleOrder' = Append(settleOrder, c)
    /\ UNCHANGED <<apiKey, rubricText, studentFiles, pc, criteria, fileIdx,
                   requests, results, nPieces, ocrVars, formVars, authVars>>

\* Promise.all of the current file has resolved: its result is pushed and
\* the loop goes to the next file, or returns
FileDone ==
    /\ pc = "grading"
    /\ AllSettled(calls[fileIdx])
    /\ results' = Append(results,
                         FileResult(studentFiles[fileIdx], criteria,
                                    calls[fileIdx], settleOrder))
    /\ IF fileIdx = Len(studentFiles)
       THEN /\ pc' = "done"
            /\ UNCHANGED <<fileIdx, calls, settleOrder>>
       ELSE /\ pc' = "grading"
            /\ fileIdx' = fileIdx + 1
            /\ calls' = [calls EXCEPT ![fileIdx + 1] =
                            LaunchCalls(criteria, apiKey)]
            /\ settleOrder' = LaunchOrder(criteria, apiKey)
    /\ UNCHANGED <<apiKey, rubricText, studentFiles, criteria, requests,
                   nPieces, ocrVars, formVars, authVars>>

\* ------------------------------------------------------------------------
\* initializeOCR and processImage
\* ------------------------------------------------------------------------

\* the largest number of calls of initializeOCR and processImage
MaxOcrCalls == 2

\* let worker: Tesseract.Worker | null = null
NoWorker == 0

OcrInit ==
    /\ worker = NoWorker /\ workers = <<>> /\ ocrCalls = <<>>
    /\ recognizeCalls = {}

\* a worker as createWorker() makes it: no language loaded, not initialized
NewWorker == [loaded |-> FALSE, initialized |-> FALSE]

\* a call of fn at position at, waiting for an operation on worker w
OcrCall(fn, at, w) == [fn |-> fn, pc |-> at, w |-> w]

\* worker.recognize(imageFile) is invoked on worker w
Recognize(w) ==
    recognizeCalls \cup {[w |-> w, loaded |-> workers[w].loaded,
                          initialized |-> workers[w].initialized]}

\* initializeOCR() up to its first await, called by fn: with no worker it
\* calls createWorker(), and else it returns
EnterInitializeOCR(fn) ==
    IF worker = NoWorker
    THEN /\ workers' = Append(workers, NewWorker)
         /\ ocrCalls' = Append(ocrCalls,
                               OcrCall(fn, "createWorker", Len(workers) + 1))
    ELSE /\ ocrCalls' = Append(ocrCalls, OcrCall(fn, "done", NoWorker))
         /\ UNCHANGED workers

initializeOCR ==
    /\ Len(ocrCalls) < MaxOcrCalls
    /\ EnterInitializeOCR("initializeOCR")
    /\ UNCHANGED <<worker, recognizeCalls, runVars, formVars, authVars>>

\* processImage(imageFile) up to its first await: with no worker it calls
\* initializeOCR(), and else worker.recognize
processImage ==
    /\ Len(ocrCalls) < MaxOcrCalls
    /\ IF worker = NoWorker
       THEN /\ EnterInitializeOCR("processImage")
            /\ UNCHANGED recognizeCalls
       ELSE /\ recognizeCalls' = Recognize(worker)
            /\ ocrCalls' = Append(ocrCalls,
                                  OcrCall("processImage", "recognize",
                                          worker))
            /\ UNCHANGED workers
    /\ UNCHANGED <<worker, runVars, formVars, authVars>>

\* createWorker() resolves for call i: worker is assigned, and
\* worker.loadLanguage('eng') is called
CreateWorkerDone(i) ==
    /\ ocrCalls[i].pc = "createWorker"
    /\ worker' = ocrCalls[i].w
    /\ ocrCalls' = [ocrCalls EXCEPT ![i].pc = "loadLanguage"]
    /\ UNCHANGED <<workers, recognizeCalls, runVars, formVars, authVars>>

\* loadLanguage resolves for call i: worker.initialize('eng') is called, on
\* the worker the variable holds by now
LoadLanguageDone(i) ==
    /\ ocrCalls[i].pc = "loadLanguage"
    /\ workers' = [workers EXCEPT ![ocrCalls[i].w].loaded = TRUE]
    /\ ocrCalls' = [ocrCalls EXCEPT ![i].pc = "initialize", ![i].w = worker]
    /\ UNCHANGED <<worker, recognizeCalls, runVars, formVars, authVars>>

\* initialize resolves for call i: initializeOCR returns
InitializeDone(i) ==
    /\ ocrCalls[i].pc = "initialize"
    /\ workers' = [workers EXCEPT ![ocrCalls[i].w].initialized = TRUE]
    /\ ocrCalls' = [ocrCalls EXCEPT
                        ![i].pc = IF ocrCalls[i].fn = "processImage"
                                  THEN "initialized" ELSE "done",
                        ![i].w = NoWorker]
    /\ UNCHANGED <<worker, recognizeCalls, runVars, formVars, authVars>>

\* processImage goes on after its await initializeOCR(): worker!.recognize
RecognizeAfterInit(i) ==
    /\ ocrCalls[i].pc = "initialized"
    /\ recognizeCalls' = Recognize(worker)
    /\ ocrCalls' = [ocrCalls EXCEPT ![i].pc = "recognize", ![i].w = worker]
    /\ UNCHANGED <<worker, workers, runVars, formVars, authVars>>

\* recognize resolves for call i: processImage returns the text
RecognizeDone(i) ==
    /\ ocrCalls[i].pc = "recognize"
    /\ ocrCalls' = [ocrCalls EXCEPT ![i].pc = "done", ![i].w = NoWorker]
    /\ UNCHANGED <<worker, workers, recognizeCalls, runVars, formVars,
                   authVars>>

\* ------------------------------------------------------------------------
\* GradingPage: the grading form
\* ------------------------------------------------------------------------

\* the largest number of submit events of one visit of the form
MaxSubmits == 2

\* null where an object is expected
NullObject == [null |-> TRUE]

RubricDoc == [name |-> <<"r", ".", "t", "x", "t">>]

SubjectIds == {"math", "physics"}

SessionNames == {"", "Midterm"}

GradingRoute == "/grading"

ResultsRoute == "/grading/results/session"

Toast(title, variant) == [title |-> title, variant |-> variant]

\* Validate that checks the files before the subject
ValidateFilesFirst(subj, files, rfile, template) ==
    IF Len(files) = 0
    THEN <<Toast("Student files required", "destructive")>>
    ELSE IF subj = Null THEN <<Toast("Subject required", "destructive")>>
    ELSE IF rfile = NullObject /\ ~template
    THEN <<Toast("Rubric required", "destructive")>>
    ELSE <<>>

\* the checks handleSubmit makes before it starts: the toasts it raises,
\* none when the submission starts
Validate(subj, files, rfile, template) ==
    IF subj = Null THEN <<Toast("Subject required", "destructive")>>
    ELSE IF Len(files) = 0
    THEN <<Toast("Student files required", "destructive")>>
    ELSE IF rfile = NullObject /\ ~template
    THEN <<Toast("Rubric required", "destructive")>>
    ELSE <<>>

\* the submit button of the rubric tab is rendered and enabled
RubricTabButton ==
    activeTab = "rubric"
    /\ ~(isSubmitting \/ (rubricFile = NullObject /\ ~useTemplateRubric))

\* the submit button of the summary card is enabled
SummaryButton ==
    ~(isSubmitting \/ subject = Null \/ Len(formFiles) = 0
        \/ (rubricFile = NullObject /\ ~useTemplateRubric))

\* the form can be submitted: through an enabled submit button, and with
\* the required session name filled in while its input is rendered
CanSubmit ==
    /\ RubricTabButton \/ SummaryButton
    /\ activeTab = "upload" => sessionName # ""

setActiveTab(tab) ==
    /\ route = GradingRoute
    /\ activeTab' = tab
    /\ UNCHANGED <<subject, sessionName, formFiles, rubricFile,
                   useTemplateRubric, isSubmitting, toasts, route, submitPc,
                   submitEvents, graderVars, authVars>>

setSessionName(value) ==
    /\ route = GradingRoute /\ activeTab = "upload"
    /\ sessionName' = value
    /\ UNCHANGED <<activeTab, subject, formFiles, rubricFile,
                   useTemplateRubric, isSubmitting, toasts, route, submitPc,
                   submitEvents, graderVars, authVars>>

setSubject(value) ==
    /\ route = GradingRoute /\ activeTab = "upload"
    /\ subject' = value
    /\ UNCHANGED <<activeTab, sessionName, formFiles, rubricFile,
                   useTemplateRubric, isSubmitting, toasts, route, submitPc,
                   submitEvents, graderVars, authVars>>

handleStudentFilesChange(files) ==
    /\ route = GradingRoute /\ activeTab = "upload"
    /\ formFiles' = files
    /\ UNCHANGED <<activeTab, subject, sessionName, rubricFile,
                   useTemplateRubric, isSubmitting, toasts, route, submitPc,
                   submitEvents, graderVars, authVars>>

handleRubricFileChange(files) ==
    /\ route = GradingRoute /\ activeTab = "rubric" /\ ~useTemplateRubric
    /\ IF Len(files) > 0
       THEN rubricFile' = files[1] /\ useTemplateRubric' = FALSE
       ELSE rubricFile' = NullObject /\ UNCHANGED useTemplateRubric
    /\ UNCHANGED <<activeTab, subject, sessionName, formFiles, isSubmitting,
                   toasts, route, submitPc, submitEvents, graderVars,
                   authVars>>

\* handleUseTemplateChange that keeps the rubric file
handleUseTemplateChangeKeepFile(value) ==
    /\ route = GradingRoute /\ activeTab = "rubric"
    /\ useTemplateRubric' = (value = "template")
    /\ UNCHANGED <<activeTab, subject, sessionName, formFiles, rubricFile,
                   isSubmitting, toasts, route, submitPc, submitEvents,
                   graderVars, authVars>>

handleUseTemplateChange(value) ==
    /\ route = GradingRoute /\ activeTab = "rubric"
    /\ useTemplateRubric' = (value = "template")
    /\ IF value = "template"
       THEN rubricFile' = NullObject
       ELSE UNCHANGED rubricFile
    /\ UNCHANGED <<activeTab, subject, sessionName, formFiles, isSubmitting,
                   toasts, route, submitPc, submitEvents, graderVars,
                   authVars>>

\* handleSubmit up to its return or to its await of the timer
handleSubmit ==
    /\ route = GradingRoute /\ CanSubmit
    /\ submitEvents < MaxSubmits
    /\ submitEvents' = submitEvents + 1
    /\ LET raised == Validate(subject, formFiles, rubricFile,
                              useTemplateRubric)
       IN  IF raised # <<>>
           THEN /\ toasts' = toasts \o raised
                /\ UNCHANGED <<isSubmitting, submitPc>>
           ELSE /\ isSubmitting' = TRUE
                /\ submitPc' = "waiting"
                /\ UNCHANGED toasts
    /\ UNCHANGED <<activeTab, subject, sessionName, formFiles, rubricFile,
                   useTemplateRubric, route, graderVars, authVars>>

\* the timer of handleSubmit fires: the rest of its try block, and finally
TimerDone ==
    /\ submitPc = "waiting"
    /\ toasts' = Append(toasts, Toast("Grading started", "default"))
    /\ route' = ResultsRoute
    /\ isSubmitting' = FALSE
    /\ submitPc' = "idle"
    /\ UNCHANGED <<activeTab, subject, sessionName, formFiles, rubricFile,
                   useTemplateRubric, submitEvents, graderVars, authVars>>

\* ------------------------------------------------------------------------
\* AuthProvider
\* ------------------------------------------------------------------------

\* the largest number of stored users
MaxUsers == 2

\* the largest number of register calls
MaxRegisters == 3

Names == {"Ann"}

Emails == {"a@x", "b@x"}

Passwords == {"pw"}

\* "user-" + Math.random().toString(36).substr(2, 9)
UserIds == {"user-1", "user-2"}

\* JSON.stringify and JSON.parse of a value made of strings
JSONstringify(value) == <<"json", value>>

JSONparse(str) == str[2]

\* localStorage.getItem gives null for a key that is not set
NoItem == <<"none">>

\* getStoredUsers
getStoredUsers ==
    IF localStorage.fairgrade_users # NoItem
    THEN JSONparse(localStorage.fairgrade_users)
    ELSE <<>>

\* { password: _, ...userData } = newUser
WithoutPassword(newUser) ==
    [id |-> newUser.id, name |-> newUser.name, email |-> newUser.email]

\* the effect of AuthProvider after its first render
Mount ==
    /\ ~mounted
    /\ mounted' = TRUE
    /\ user' = IF localStorage.current_user # NoItem
               THEN JSONparse(localStorage.current_user)
               ELSE user
    /\ loading' = FALSE
    /\ UNCHANGED <<localStorage, thrown, registerCalls, graderVars, formVars>>

login(email, password) ==
    /\ mounted
    /\ user' = [email |-> email]
    /\ loading' = FALSE
    /\ thrown' = ""
    /\ UNCHANGED <<localStorage, mounted, registerCalls, graderVars, formVars>>

\* register without the check of the email
registerNoCheck(name, email, password, id) ==
    /\ mounted
    /\ Len(registerCalls) < MaxRegisters
    /\ registerCalls' = Append(registerCalls, email)
    /\ LET users == getStoredUsers
           newUser == [id |-> id, name |-> name, email |-> email,
                       password |-> password]
       IN  /\ Len(users) < MaxUsers
           /\ thrown' = ""
           /\ user' = WithoutPassword(newUser)
           /\ localStorage' =
                  [fairgrade_users |-> JSONstringify(Append(users, newUser)),
                   current_user |-> JSONstringify(WithoutPassword(newUser))]
    /\ loading' = FALSE
    /\ UNCHANGED <<mounted, graderVars, formVars>>

register(name, email, password, id) ==
    /\ mounted
    /\ Len(registerCalls) < MaxRegisters
    /\ registerCalls' = Append(registerCalls, email)
    /\ LET users == getStoredUsers
           newUser == [id |-> id, name |-> name, email |-> email,
                       password |-> password]
       IN  IF \E u \in 1..Len(users) : users[u].email = email
           THEN /\ thrown' = "Email already registered"
                /\ UNCHANGED <<user, localStorage>>
           ELSE /\ Len(users) < MaxUsers
                /\ thrown' = ""
                /\ user' = WithoutPassword(newUser)
                /\ localStorage' =
                       [fairgrade_users |->
                            JSONstringify(Append(users, newUser)),
                        current_user |->
                            JSONstringify(WithoutPassword(newUser))]
    /\ loading' = FALSE
    /\ UNCHANGED <<mounted, graderVars, formVars>>

logout ==
    /\ mounted
    /\ user' = NullObject
    /\ localStorage' = [localStorage EXCEPT !.current_user = NoItem]
    /\ loading' = FALSE
    /\ thrown' = ""
    /\ UNCHANGED <<mounted, registerCalls, graderVars, formVars>>

\* the page is loaded again: the provider is constructed anew, the storage
\* of the browser stays
Reload ==
    /\ mounted
    /\ mounted' = FALSE
    /\ user' = NullObject
    /\ loading' = TRUE
    /\ thrown' = ""
    /\ UNCHANGED <<localStorage, registerCalls, graderVars, formVars>>

\* ------------------------------------------------------------------------
\* Specifications
\* ------------------------------------------------------------------------

GraderIdle ==
    /\ apiKey = FALSE /\ rubricText = <<>> /\ studentFiles = <<>>
    /\ pc = "off" /\ criteria = <<>> /\ fileIdx = 0 /\ calls = <<>>
    /\ requests = <<>> /\ settleOrder = <<>> /\ results = <<>>
    /\ nPieces = 0
    /\ OcrInit

FormInit ==
    /\ activeTab = "upload" /\ subject = Null /\ sessionName = ""
    /\ formFiles = <<>> /\ rubricFile = NullObject
    /\ useTemplateRubric = FALSE /\ isSubmitting = FALSE
    /\ toasts = <<>> /\ route = GradingRoute /\ submitPc = "idle"
    /\ submitEvents = 0

AuthInit ==
    /\ user = NullObject /\ loading = TRUE /\ mounted = FALSE
    /\ localStorage = [fairgrade_users |-> NoItem, current_user |-> NoItem]
    /\ thrown = "" /\ registerCalls = <<>>

\* one run of processStudentAnswers
Init ==
    /\ apiKey \in BOOLEAN
    /\ rubricText \in RubricTexts
    /\ studentFiles \in FileLists
    /\ pc = "start" /\ criteria = <<>> /\ fileIdx = 0 /\ calls = <<>>
    /\ requests = <<>> /\ settleOrder = <<>> /\ results = <<>>
    /\ nPieces = 0
    /\ OcrInit /\ FormInit /\ AuthInit

Next ==
    \/ Start
    \/ \E f \in 1..Len(calls) : \E c \in 1..Len(calls[f]) : ReadDone(f, c)
    \/ \E f \in 1..Len(calls) : \E c \in 1..Len(calls[f]) : FetchDone(f, c)
    \/ FileDone

Spec == Init /\ [][Next]_vars

\* the grading form
InitForm == GraderIdle /\ FormInit /\ AuthInit

NextForm ==
    \/ \E tab \in {"upload", "rubric"} : setActiveTab(tab)
    \/ \E value \in SessionNames : setSessionName(value)
    \/ \E value \in SubjectIds : setSubject(value)
    \/ \E files \in {<<>>, <<File(1)>>, <<File(1), File(2)>>} :
          handleStudentFilesChange(files)
    \/ \E files \in {<<>>, <<RubricDoc>>} : handleRubricFileChange(files)
    \/ \E value \in {"upload", "template"} : handleUseTemplateChange(value)
    \/ handleSubmit
    \/ TimerDone

SpecForm == InitForm /\ [][NextForm]_vars

\* the authentication context
InitAuth == GraderIdle /\ FormInit /\ AuthInit

NextAuth ==
    \/ Mount
    \/ \E email \in Emails, password \in Passwords : login(email, password)
    \/ \E name \in Names, email \in Emails, password \in Passwords,
          id \in UserIds : register(name, email, password, id)
    \/ logout
    \/ Reload

SpecAuth == InitAuth /\ [][NextAuth]_vars

\* concurrent calls of initializeOCR and processImage
InitOCR == GraderIdle /\ FormInit /\ AuthInit

NextOCR ==
    \/ initializeOCR
    \/ processImage
    \/ \E i \in 1..Len(ocrCalls) : CreateWorkerDone(i)
    \/ \E i \in 1..Len(ocrCalls) : LoadLanguageDone(i)
    \/ \E i \in 1..Len(ocrCalls) : InitializeDone(i)
    \/ \E i \in 1..Len(ocrCalls) : RecognizeAfterInit(i)
    \/ \E i \in 1..Len(ocrCalls) : RecognizeDone(i)

SpecOCR == InitOCR /\ [][NextOCR]_vars

\* parseRubric on the texts typed from a few pieces
MaxPieces == 4

Pieces ==
    { <<"a">>, <<" ">>, <<"\r">>, <<"\n">>, <<"(">>, <<"1">>, <<"%", ")">>,
      <<"(", "0", "%", ")">>, <<"(", "1", "2", "%", ")">> }

TypePiece(piece) ==
    /\ pc = "typing"
    /\ nPieces < MaxPieces
    /\ rubricText' = rubricText \o piece
    /\ nPieces' = nPieces + 1
    /\ UNCHANGED <<apiKey, studentFiles, pc, criteria, fileIdx, calls,
                   requests, settleOrder, results, ocrVars, formVars, authVars>>

ParseRubric ==
    /\ pc = "typing"
    /\ criteria' = parseRubric(rubricText)
    /\ pc' = "parsed"
    /\ UNCHANGED <<apiKey, rubricText, studentFiles, fileIdx, calls,
                   requests, settleOrder, results, nPieces, ocrVars, formVars,
                   authVars>>

InitParse ==
    /\ apiKey = FALSE /\ rubricText = <<>> /\ studentFiles = <<>>
    /\ pc = "typing" /\ criteria = <<>> /\ fileIdx = 0 /\ calls = <<>>
    /\ requests = <<>> /\ settleOrder = <<>> /\ results = <<>>
    /\ nPieces = 0
    /\ OcrInit /\ FormInit /\ AuthInit

NextParse ==
    \/ \E piece \in Pieces : TypePiece(piece)
    \/ ParseRubric

SpecParse == InitParse /\ [][NextParse]_vars

\* ------------------------------------------------------------------------
\* Properties
\* ------------------------------------------------------------------------

Pairs == {<<f, c>> \in (1..Len(calls)) \X (1..Len(criteria)) : TRUE}

Settled(f, c) == calls[f][c].st \notin {"idle", "read", "fetch"}

\* the call of a pair met one of the failures: no key, a read error, a
\* network error, a status that is not OK, no text, no score in the text,
\* or a score above maxScore
Failed(f, c) ==
    \/ calls[f][c].ev # "text"
    \/ ScoreMatch(calls[f][c].text) = <<>>
    \/ parseInt(ScoreMatch(calls[f][c].text)[2]) > criteria[c].weight

\* C1: gradeCriterion never rejects: whatever failure a pair meets, its call
\* is fulfilled with the score floor(0.7 * maxScore), that is
\* floor(7 * maxScore / 10), and a feedback that begins with "Unable to
\* perform AI grading:".
C1Claim ==
    \A p \in Pairs :
        Settled(p[1], p[2]) /\ Failed(p[1], p[2]) =>
            /\ calls[p[1]][p[2]].st = "fulfilled"
            /\ calls[p[1]][p[2]].score = (7 * criteria[p[2]].weight) \div 10
            /\ Head(calls[p[1]][p[2]].feedback)
                   = "Unable to perform AI grading: "

\* C2: once every call has settled, processStudentAnswers resolves with one
\* result per file, in the order of the files, each with one entry per
\* criterion, in the order of the rubric; the entry of a pair is what the
\* call of that pair settled with, whatever the other pairs met and
\* whatever the order the calls settled in.
C2Theorem ==
    pc = "done" =>
        /\ Len(results) = Len(studentFiles)
        /\ \A f \in 1..Len(studentFiles) :
              /\ results[f].name = StripExtension(studentFiles[f].name)
              /\ Len(results[f].criteria) = Len(criteria)
              /\ \A c \in 1..Len(criteria) :
                    /\ results[f].criteria[c].name = criteria[c].name
                    /\ results[f].criteria[c].maxScore = criteria[c].weight
                    /\ results[f].criteria[c].score = calls[f][c].score
                    /\ results[f].criteria[c].feedback = calls[f][c].feedback
                    /\ ~Failed(f, c) =>
                          results[f].criteria[c].score
                              = parseInt(ScoreMatch(calls[f][c].text)[2])

\* two files are graded; the calls of the second settled in the order 2, 1,
\* the first with a score of its own and the second after a network error
C2Witness ==
    /\ pc = "done" /\ Len(results) = 2 /\ Len(criteria) = 2
    /\ settleOrder = <<2, 1>>
    /\ calls[2][1].ev = "text" /\ results[2].criteria[1].score = 23
    /\ calls[2][2].ev = "networkerror"

\* C3: no call of a file is started, and no request for it issued, until
\* every call of the file before it has settled.
C3Theorem ==
    \A p \in Pairs :
        (p[1] > 1 /\ (calls[p[1]][p[2]].st # "idle"
                        \/ requests[p[1]][p[2]] > 0)) =>
            \A c \in 1..Len(criteria) : Settled(p[1] - 1, c)

\* every call of the second file is in flight at the same time
C3Witness ==
    /\ Len(calls) = 2 /\ Len(criteria) = 2
    /\ \A c \in 1..Len(criteria) :
          calls[2][c].st = "fetch" /\ requests[2][c] = 1

\* C4 as stated: when the run is over, a request was issued for every pair.
C4Original ==
    pc = "done" => \A p \in Pairs : requests[p[1]][p[2]] >= 1

\* C4: when the run is over, a request was issued for every pair for which
\* the key is set and the file could be read, and none for the others.
C4Theorem ==
    pc = "done" =>
        \A p \in Pairs :
            IF apiKey /\ calls[p[1]][p[2]].ev # "readerror"
            THEN requests[p[1]][p[2]] >= 1
            ELSE requests[p[1]][p[2]] = 0

\* a run with a key is over: one pair was sent and one was not, its read
\* having failed
C4Witness ==
    /\ pc = "done" /\ apiKey /\ Len(calls) >= 1 /\ Len(criteria) = 2
    /\ calls[1][1].ev = "readerror" /\ requests[1][1] = 0
    /\ requests[1][2] = 1

\* C5: at most one request is issued for a pair, also when it fails.
C5Theorem == \A p \in Pairs : requests[p[1]][p[2]] <= 1

\* the run is over, and a pair whose request failed was not sent again
C5Witness ==
    /\ pc = "done" /\ Len(calls) >= 1 /\ Len(criteria) >= 1
    /\ calls[1][1].ev = "httperror" /\ requests[1][1] = 1

\* C6: the total score of a file whose weights sum to W > 0 and whose
\* scores sum to S is 100 * S / W rounded to the nearest integer, halves
\* up: floor((200 * S + W) / (2 * W)).
C6Claim ==
    \A f \in 1..Len(results) :
        SumMaxScores(results[f].criteria) > 0 =>
            results[f].score =
                IntNum((200 * SumScores(results[f].criteria)
                            + SumMaxScores(results[f].criteria))
                        \div (2 * SumMaxScores(results[f].criteria)))

\* the first position of line where \((\d+)%\) matches
FirstGroup(line) ==
    CHOOSE p \in 1..Len(line) :
        GroupAt(line, p) /\ \A q \in 1..(p - 1) : ~GroupAt(line, q)

HasGroup(line) == \E p \in 1..Len(line) : GroupAt(line, p)

GroupWeight(line) ==
    parseInt(SubSeq(line, FirstGroup(line) + 1,
                    SkipDigits(line, FirstGroup(line) + 1) - 1))

\* the criterion C7 states for a line that has a group
StatedCriterion(line) ==
    [name |-> trim(SubSeq(line, 1, FirstGroup(line) - 1)),
     weight |-> GroupWeight(line)]

\* where the name starts: after the last carriage return that has a
\* character other than white space between it and the group
NameStart(line) ==
    LET p == FirstGroup(line)
        w == CHOOSE i \in 1..p :
                 /\ \A k \in i..(p - 1) : IsSpace(line[k])
                 /\ i > 1 => ~IsSpace(line[i - 1])
        cr == {k \in 1..(w - 1) : IsLineTerminator(line[k])}
    IN  IF cr = {} THEN 1
        ELSE 1 + CHOOSE k \in cr : \A j \in cr : j <= k

AmendedCriterion(line) ==
    [name |-> trim(SubSeq(line, NameStart(line), FirstGroup(line) - 1)),
     weight |-> GroupWeight(line)]

RECURSIVE StatedParse(_)
StatedParse(lines) ==
    IF lines = <<>> THEN <<>>
    ELSE (IF HasGroup(Head(lines)) THEN <<StatedCriterion(Head(lines))>>
          ELSE <<>>) \o StatedParse(Tail(lines))

RECURSIVE AmendedParse(_)
AmendedParse(lines) ==
    IF lines = <<>> THEN <<>>
    ELSE (IF HasGroup(Head(lines)) THEN <<AmendedCriterion(Head(lines))>>
          ELSE <<>>) \o AmendedParse(Tail(lines))

\* C7 as stated: parseRubric gives, in the order of the lines, one
\* criterion for each line that contains (<digits>%) and none for another;
\* its weight is the value of the first such group of the line and its name
\* the trimmed text before that group.
C7Original ==
    pc = "parsed" => criteria = StatedParse(split(rubricText, "\n"))

\* C7: as stated, but the name is the trimmed text before the group that
\* follows the last carriage return with a character other than white space
\* between it and the group (all the text before the group when there is
\* no such carriage return).
C7Theorem ==
    pc = "parsed" => criteria = AmendedParse(split(rubricText, "\n"))

\* a line whose group follows a carriage return and a name: the name is
\* the text between them
C7Witness ==
    /\ pc = "parsed"
    /\ rubricText = <<"a", "\r", "a", "(", "1", "2", "%", ")">>
    /\ criteria = <<[name |-> <<"a">>, weight |-> 12]>>

\* C8: every criterion entry of a result has 0 <= score <= maxScore, with
\* maxScore the weight of its criterion.
C8Theorem ==
    \A f \in 1..Len(results) :
        \A c \in 1..Len(results[f].criteria) :
            /\ results[f].criteria[c].maxScore = criteria[c].weight
            /\ 0 <= results[f].criteria[c].score
            /\ results[f].criteria[c].score
                   <= results[f].criteria[c].maxScore

\* a result holds a score read from the answer and a fallback score given
\* for an answer whose score was above maxScore
C8Witness ==
    /\ Len(results) >= 1 /\ Len(criteria) = 2
    /\ calls[1][1].ev = "text" /\ results[1].criteria[1].score = 23
    /\ calls[1][2].ev = "text" /\ results[1].criteria[2].score = 7

FormValid ==
    /\ subject # Null
    /\ Len(formFiles) > 0
    /\ rubricFile # NullObject \/ useTemplateRubric

C10Claim ==
    \/ user = NullObject
    \/ /\ {"id", "name", "email"} \subseteq DOMAIN user
       /\ "password" \notin DOMAIN user

StoredEmails == [u \in 1..Len(getStoredUsers) |-> getStoredUsers[u].email]

\* C11: a register call with an email that a stored user has throws "Email
\* already registered" and leaves the fairgrade_users list, the current_user
\* entry and the user of the context as they are, with loading false; and
\* no two stored users ever share an email.
C11Theorem ==
    /\ [](\A u, v \in 1..Len(StoredEmails) :
             StoredEmails[u] = StoredEmails[v] => u = v)
    /\ [][registerCalls' # registerCalls =>
             ((\E u \in 1..Len(StoredEmails) :
                   StoredEmails[u] = registerCalls'[Len(registerCalls')])
                  => /\ thrown' = "Email already registered"
                     /\ localStorage' = localStorage
                     /\ user' = user
                     /\ ~loading')]_vars

\* two users are stored, another is logged in, and the last register call,
\* with the email of the first stored user, has thrown
C11Witness ==
    /\ Len(StoredEmails) = 2
    /\ registerCalls = <<"a@x", "b@x", "a@x">>
    /\ thrown = "Email already registered"
    /\ user # NullObject /\ user.email = "b@x"

\* C12: recognize is never invoked on a worker before loadLanguage('eng')
\* and initialize('eng') have both completed on that worker, and
\* createWorker is called at most once.
C12Claim ==
    /\ \A r \in recognizeCalls : r.loaded /\ r.initialized
    /\ Len(workers) <= 1

\* C13: the total score of every result is an integer in 0..100, also for
\* a rubric with no criterion line and for a rubric whose weights are all 0.
C13Claim ==
    \A f \in 1..Len(results) :
        /\ ~results[f].score.nan /\ ~results[f].score.inf
        /\ results[f].score.v \in 0..100

\* C14: in the grading form the two rubric sources exclude each other:
\* rubricFile is never set while useTemplateRubric is true.
C14Theorem == ~(rubricFile # NullObject /\ useTemplateRubric)

\* the template was chosen on the rubric tab, and no rubric file is set
C14Witness ==
    /\ activeTab = "rubric" /\ route = GradingRoute
    /\ useTemplateRubric /\ rubricFile = NullObject

=============================================================================
